---- MODULE Spec2Model ----
(***************************************************************************)
(* Model of multi_role_agent/agent.py: the task planner's extraction of a  *)
(* task list from a model response (TaskPlannerAgent.generate_tasks), the  *)
(* fallback substitution and the sequential execution loop of the          *)
(* /process_terraform/ route (func), and the step executor                 *)
(* (CloudAIAgent.invoke).                                                  *)
(*                                                                         *)
(* Text is a sequence of symbols.  A symbol is one character that the code *)
(* looks at ('{', '}', '[', ']', ',', ':', '"', white space), a fence      *)
(* marker (three backticks, written "FENCE" here, and three backticks      *)
(* followed by json, written "FENCEjson"), or a word that contains none of *)
(* these ("description", "a", "error", ...), which every scan of the code  *)
(* steps over as it steps over the word's characters.                      *)
(***************************************************************************)
EXTENDS Integers, Sequences, FiniteSets, TLC

(***************************************************************************)
(* Bounds of the model.                                                    *)
(***************************************************************************)
\* Longest item list a free-text response encodes.
MaxItems == 2
\* Longest task list a structured response carries into the loop.
MaxTasks == 3

(***************************************************************************)
(* Symbols.                                                                *)
(***************************************************************************)
Q == "\""
LBrace == "{"
RBrace == "}"
LBracket == "["
RBracket == "]"
Comma == ","
Colon == ":"
\* Three backticks.
Fence == "FENCE"
\* Three backticks and the label json.
FenceJson == "FENCEjson"
Space == " "
Newline == "\n"
NullWord == "null"
Digits == {"0", "1", "2", "3", "4", "5", "6", "7", "8", "9"}

\* Python's str.isspace on one symbol: the \s of the regex and str.strip.
IsSpace(c) == c \in {Space, Newline}

\* A fence marker starts with three backticks: the labelled marker begins
\* with the bare one.
IsFence(c) == c \in {Fence, FenceJson}

Min(S) == CHOOSE x \in S : \A y \in S : x <= y

\* s[:n]
Take(s, n) == SubSeq(s, 1, IF Len(s) < n THEN Len(s) ELSE n)

\* str.find(ch): the 1-based index of the first occurrence, 0 when there is
\* none (Python: 0-based, -1 when there is none).
Find(content, ch) ==
    LET hits == {i \in 1..Len(content) : content[i] = ch}
    IN  IF hits = {} THEN 0 ELSE Min(hits)

\* str.strip(): leading and trailing white space removed.
Strip(s) ==
    LET keep == {i \in 1..Len(s) : ~IsSpace(s[i])}
    IN  IF keep = {} THEN <<>>
        ELSE SubSeq(s, Min(keep), CHOOSE j \in keep : \A k \in keep : k <= j)

\* str.lower() on one symbol.
LowerSym(c) ==
    IF c \in {"Error", "ERROR"} THEN "error"
    ELSE IF c = "Graph" THEN "graph" ELSE c

\* "error" in s.lower()
ContainsError(s) == \E i \in 1..Len(s) : LowerSym(s[i]) = "error"

\* str(n) for the positions the model reaches.
NumSym(n) ==
    CASE n = 1 -> "1" [] n = 2 -> "2" [] n = 3 -> "3" [] n = 4 -> "4"
      [] n = 5 -> "5" [] n = 6 -> "6" [] n = 7 -> "7" [] n = 8 -> "8"
      [] OTHER -> "9"

(***************************************************************************)
(* JSON values: a string, null, a number (one digit), an array, an object  *)
(* (its members in document order).  Values of different kinds are never   *)
(* compared with each other; only their tags are.                          *)
(***************************************************************************)
JNull == [t |-> "null"]
JStr(s) == [t |-> "str", s |-> s]
JNum(d) == [t |-> "num", d |-> d]
JArr(e) == [t |-> "arr", e |-> e]
JObj(m) == [t |-> "obj", m |-> m]
Member(k, v) == [k |-> k, v |-> v]

ParseFail == [ok |-> FALSE, v |-> JNull, p |-> 0]
ParseOk(v, p) == [ok |-> TRUE, v |-> v, p |-> p]

\* json.decoder WHITESPACE.match(s, p).end()
RECURSIVE SkipWS(_, _)
SkipWS(s, p) ==
    IF p <= Len(s) /\ IsSpace(s[p]) THEN SkipWS(s, p + 1) ELSE p

\* json.decoder.py_scanstring with strict=True, from the opening quote at p:
\* the characters up to the next quote; a control character (the newline)
\* inside the string is an error, as is the end of the text.
ParseString(s, p) ==
    LET closes == {j \in (p + 1)..Len(s) : s[j] = Q}
    IN  IF closes = {} THEN ParseFail
        ELSE LET j == Min(closes)
                 body == SubSeq(s, p + 1, j - 1)
             IN  IF \E i \in 1..Len(body) : body[i] = Newline
                 THEN ParseFail
                 ELSE ParseOk(JStr(body), j + 1)

RECURSIVE ParseValue(_, _), ParseElems(_, _, _), ParseMembers(_, _, _)

\* json.scanner.py_make_scanner._scan_once at position p.
ParseValue(s, p) ==
    IF p > Len(s) THEN ParseFail
    ELSE CASE s[p] = Q -> ParseString(s, p)
           [] s[p] = LBracket ->
                LET q == SkipWS(s, p + 1)
                IN  IF q <= Len(s) /\ s[q] = RBracket
                    THEN ParseOk(JArr(<<>>), q + 1)
                    ELSE ParseElems(s, q, <<>>)
           [] s[p] = LBrace ->
                LET q == SkipWS(s, p + 1)
                IN  IF q <= Len(s) /\ s[q] = RBrace
                    THEN ParseOk(JObj(<<>>), q + 1)
                    ELSE ParseMembers(s, q, <<>>)
           [] s[p] = NullWord -> ParseOk(JNull, p + 1)
           [] s[p] \in Digits -> ParseOk(JNum(s[p]), p + 1)
           [] OTHER -> ParseFail

\* json.decoder.JSONArray: a value, then ',' and another value, or ']'.
ParseElems(s, p, acc) ==
    LET r == ParseValue(s, p)
    IN  IF ~r.ok THEN ParseFail
        ELSE LET q == SkipWS(s, r.p)
             IN  IF q > Len(s) THEN ParseFail
                 ELSE IF s[q] = Comma
                      THEN ParseElems(s, SkipWS(s, q + 1), Append(acc, r.v))
                 ELSE IF s[q] = RBracket
                      THEN ParseOk(JArr(Append(acc, r.v)), q + 1)
                 ELSE ParseFail

\* json.decoder.JSONObject: "key" : value, then ',' and another member, or '}'.
ParseMembers(s, p, acc) ==
    IF p > Len(s) \/ s[p] # Q THEN ParseFail
    ELSE LET k == ParseString(s, p)
         IN  IF ~k.ok THEN ParseFail
             ELSE LET c == SkipWS(s, k.p)
                  IN  IF c > Len(s) \/ s[c] # Colon THEN ParseFail
                      ELSE LET r == ParseValue(s, SkipWS(s, c + 1))
                           IN  IF ~r.ok THEN ParseFail
                               ELSE LET q == SkipWS(s, r.p)
                                        m == Append(acc, Member(k.v.s, r.v))
                                    IN  IF q > Len(s) THEN ParseFail
                                        ELSE IF s[q] = Comma
                                             THEN ParseMembers(s, SkipWS(s, q + 1), m)
                                        ELSE IF s[q] = RBrace
                                             THEN ParseOk(JObj(m), q + 1)
                                        ELSE ParseFail

\* json.loads: one value, white space around it, nothing after it
\* (otherwise JSONDecodeError).
json_loads(json_str) ==
    LET r == ParseValue(json_str, SkipWS(json_str, 1))
    IN  IF r.ok /\ SkipWS(json_str, r.p) > Len(json_str)
        THEN [ok |-> TRUE, v |-> r.v]
        ELSE [ok |-> FALSE, v |-> JNull]

\* key in d, for a dict d
HasKey(d, key) == \E j \in 1..Len(d.m) : d.m[j].k = key

\* d[key]: a key given twice keeps its last value.
GetKey(d, key) ==
    LET j == CHOOSE j \in 1..Len(d.m) :
                 /\ d.m[j].k = key
                 /\ \A i \in (j + 1)..Len(d.m) : d.m[i].k # key
    IN  d.m[j].v

\* str(x) of a parsed value: a string is itself, None prints as "None", a
\* number as its digit; a
\* list or dict prints as its repr, which the model keeps as one word.
PyStr(x) ==
    CASE x.t = "str" -> x.s
      [] x.t = "null" -> <<"None">>
      [] x.t = "num" -> <<x.d>>
      [] OTHER -> <<"<repr>">>

(***************************************************************************)
(* TaskPlannerAgent.generate_tasks.                                        *)
(*                                                                         *)
(* A response of the planner runnable is                                   *)
(*   [kind |-> "structured", tasks |-> ...]  a TaskList (its Task objects  *)
(*                                           as dicts),                    *)
(*   [kind |-> "text", content |-> ...]      anything else: an AIMessage's *)
(*                                           content or str(response),     *)
(*   [kind |-> "raise"]                      the invoke raised.            *)
(***************************************************************************)
StructuredResponse(ts) == [kind |-> "structured", tasks |-> ts, content |-> <<>>]
TextResponse(c) == [kind |-> "text", tasks |-> <<>>, content |-> c]
RaiseResponse == [kind |-> "raise", tasks |-> <<>>, content |-> <<>>]

Task(description, id) == [description |-> description, id |-> id]

task_error_parsing == <<"task_", "error", "_parsing">>
task_error_processing == <<"task_", "error", "_processing">>

\* content[:500] of the JSONDecodeError message.
ResponseEchoLimit == 500

\* The except json.JSONDecodeError branch.
DecodeErrorTasks(content) ==
    << Task(<<"Error decoding JSON from LLM. Response: ">>
              \o Take(content, ResponseEchoLimit)
              \o <<". Details: ", "JSONDecodeError">>,
            task_error_parsing) >>

\* The except Exception branch; e is the exception's text.
ProcessingErrorTasks(e) ==
    << Task(<<"Error generating or processing tasks. Details: ">> \o e,
            task_error_processing) >>

\* re.search(r"FENCEjson\s*([\s\S]*?)\s*FENCE", content), then
\* match.group(1).strip(): the match starts at the first labelled fence that
\* has a fence marker after it and the lazy group ends before the first such
\* marker.
FenceSearch(content) ==
    LET opens == {i \in 1..Len(content) :
                     /\ content[i] = FenceJson
                     /\ \E j \in (i + 1)..Len(content) : IsFence(content[j])}
    IN  IF opens = {} THEN [match |-> FALSE, json_str |-> <<>>]
        ELSE LET i == Min(opens)
                 j == Min({k \in (i + 1)..Len(content) : IsFence(content[k])})
             IN  [match |-> TRUE, json_str |-> Strip(SubSeq(content, i + 1, j - 1))]

\* The for loop over range(start_char_pos, len(content)): the index of the
\* end_char that brings open_brackets back to 0, 0 when the text ends first
\* (end_char_pos == -1).
RECURSIVE ScanClosing(_, _, _, _)
ScanClosing(content, i, end_char, open_brackets) ==
    IF i > Len(content) THEN 0
    ELSE IF content[i] = (IF end_char = RBracket THEN LBracket ELSE LBrace)
         THEN ScanClosing(content, i + 1, end_char, open_brackets + 1)
    ELSE IF content[i] = end_char
         THEN IF open_brackets - 1 = 0 THEN i
              ELSE ScanClosing(content, i + 1, end_char, open_brackets - 1)
    ELSE ScanClosing(content, i + 1, end_char, open_brackets)

\* The else branch of "if match": the span from the first '{' or '[' to its
\* matching closer.  error is the ValueError's text, <<>> when none is raised.
BracketSpan(content) ==
    LET start_brace == Find(content, LBrace)
        start_bracket == Find(content, LBracket)
    IN  IF start_brace = 0 /\ start_bracket = 0
        THEN [error |-> <<"No JSON object or array found in the response.">>,
              json_str |-> <<>>]
        ELSE LET brace_first == start_brace # 0
                                  /\ (start_bracket = 0 \/ start_brace < start_bracket)
                 start_char_pos == IF brace_first THEN start_brace ELSE start_bracket
                 end_char == IF brace_first THEN RBrace ELSE RBracket
                 end_char_pos == ScanClosing(content, start_char_pos, end_char, 0)
             IN  IF end_char_pos = 0
                 THEN [error |-> <<"Could not find matching closing bracket/brace for '",
                                   content[start_char_pos], "'.">>,
                       json_str |-> <<>>]
                 ELSE [error |-> <<>>,
                       json_str |-> SubSeq(content, start_char_pos, end_char_pos)]

\* f"task_{i+1}_generated_id" for the 0-based index i of enumerate.
GeneratedId(i) == <<"task_", NumSym(i + 1), "_generated_id">>

\* ValidateItem numbering a generated id by the valid items seen so far
\* instead of the item's position.
ValidateItem_CountsValid(validated_tasks, i, task_item) ==
    IF task_item.t = "obj" /\ HasKey(task_item, <<"description">>)
    THEN LET task_id == IF HasKey(task_item, <<"id">>)
                        THEN PyStr(GetKey(task_item, <<"id">>))
                        ELSE GeneratedId(Len(validated_tasks))
         IN  Append(validated_tasks,
                    Task(PyStr(GetKey(task_item, <<"description">>)), task_id))
    ELSE validated_tasks

\* The body of "for i, task_item in enumerate(task_list_data)" for one item:
\* validated_tasks after it.
ValidateItem(validated_tasks, i, task_item) ==
    IF task_item.t = "obj" /\ HasKey(task_item, <<"description">>)
    THEN LET task_id == IF HasKey(task_item, <<"id">>)
                        THEN PyStr(GetKey(task_item, <<"id">>))
                        ELSE GeneratedId(i)
         IN  Append(validated_tasks,
                    Task(PyStr(GetKey(task_item, <<"description">>)), task_id))
    ELSE validated_tasks

\* The validation loop from index i on.
RECURSIVE ValidateFrom(_, _, _)
ValidateFrom(task_list_data, i, validated_tasks) ==
    IF i >= Len(task_list_data) THEN validated_tasks
    ELSE ValidateFrom(task_list_data, i + 1,
                      ValidateItem(validated_tasks, i, task_list_data[i + 1]))

\* TasksFromParsed without the two checks after the validation loop.
TasksFromParsed_NoEmptyCheck(parsed_data) ==
    IF parsed_data.t = "arr" THEN ValidateFrom(parsed_data.e, 0, <<>>)
    ELSE IF parsed_data.t = "obj" /\ HasKey(parsed_data, <<"tasks">>)
    THEN ValidateFrom(GetKey(parsed_data, <<"tasks">>).e, 0, <<>>)
    ELSE <<>>

\* TasksFromParsed with an invalid item failing the extraction instead of
\* being skipped.
TasksFromParsed_InvalidIsFatal(parsed_data) ==
    LET task_list_data == IF parsed_data.t = "arr" THEN parsed_data.e
                          ELSE IF parsed_data.t = "obj" /\ HasKey(parsed_data, <<"tasks">>)
                                    /\ GetKey(parsed_data, <<"tasks">>).t = "arr"
                          THEN GetKey(parsed_data, <<"tasks">>).e
                          ELSE <<>>
        validated_tasks == ValidateFrom(task_list_data, 0, <<>>)
    IN  IF validated_tasks = <<>> \/ Len(validated_tasks) < Len(task_list_data)
        THEN ProcessingErrorTasks(<<"Invalid task item.">>)
        ELSE validated_tasks

\* From parsed_data to the returned list: the choice of task_list_data, the
\* validation loop and the two checks after it.
TasksFromParsed(parsed_data) ==
    IF \/ /\ parsed_data.t = "obj"
          /\ HasKey(parsed_data, <<"tasks">>)
          /\ GetKey(parsed_data, <<"tasks">>).t = "arr"
       \/ parsed_data.t = "arr"
    THEN LET task_list_data == IF parsed_data.t = "arr" THEN parsed_data.e
                               ELSE GetKey(parsed_data, <<"tasks">>).e
             validated_tasks == ValidateFrom(task_list_data, 0, <<>>)
         IN  IF validated_tasks = <<>> /\ Len(task_list_data) > 0
             THEN ProcessingErrorTasks(
                    <<"No valid task items found after validation, though data was parsed.">>)
             ELSE IF validated_tasks = <<>>
             THEN ProcessingErrorTasks(<<"No tasks found in the parsed JSON.">>)
             ELSE validated_tasks
    ELSE ProcessingErrorTasks(
           <<"Parsed JSON is not a list of tasks or a dict containing a 'tasks' list.">>)

\* The manual parsing of a free-text response (the else branch of
\* "if isinstance(response, TaskList)") with its exception handlers.
ManualTasks(content) ==
    LET m == FenceSearch(content)
        span == IF m.match THEN [error |-> <<>>, json_str |-> m.json_str]
                ELSE BracketSpan(content)
    IN  IF span.error # <<>> THEN ProcessingErrorTasks(span.error)
        ELSE LET parsed_data == json_loads(span.json_str)
             IN  IF ~parsed_data.ok THEN DecodeErrorTasks(content)
                 ELSE TasksFromParsed(parsed_data.v)

\* task_list_data of the manual parsing (lines 153-191): the list the
\* validation loop runs over, when the extraction and json.loads succeeded
\* and the parsed value holds a list.
ParsedItems(content) ==
    LET m == FenceSearch(content)
        span == IF m.match THEN [error |-> <<>>, json_str |-> m.json_str]
                ELSE BracketSpan(content)
        parsed_data == json_loads(span.json_str)
        none == [ok |-> FALSE, e |-> <<>>]
    IN  IF span.error # <<>> THEN none
        ELSE IF ~parsed_data.ok THEN none
        ELSE IF parsed_data.v.t = "arr" THEN [ok |-> TRUE, e |-> parsed_data.v.e]
        ELSE IF /\ parsed_data.v.t = "obj"
                /\ HasKey(parsed_data.v, <<"tasks">>)
                /\ GetKey(parsed_data.v, <<"tasks">>).t = "arr"
        THEN [ok |-> TRUE, e |-> GetKey(parsed_data.v, <<"tasks">>).e]
        ELSE none

generate_tasks(response) ==
    CASE response.kind = "raise" ->
           ProcessingErrorTasks(<<"planner_runnable.invoke raised">>)
      [] response.kind = "structured" -> response.tasks
      [] OTHER -> ManualTasks(response.content)

(***************************************************************************)
(* func, lines 661-724 of agent.py: the planner is built and called once,  *)
(* the task list is chosen, and every task is run through a new            *)
(* CloudAIAgent.                                                           *)
(***************************************************************************)

\* initial_user_query: the fixed four-part goal of the route.
initial_user_query == <<"1. Generate a graph ... in original_graph.txt.",
                        "NEVER EVER HALLUCINATE ... WHEN NECESSARY.">>

fallback_direct_query_task == <<"fallback_direct_query_task">>

\* The condition of line 667 without its test for "error" in the first id.
NeedsFallback_NoErrorTest(ts) ==
    \/ ts = <<>>
    \/ ts[1].id = <<>>

\* The condition of line 667 without its test for an empty list.
NeedsFallback_NoEmptyTest(ts) ==
    /\ ts # <<>>
    /\ (ts[1].id = <<>> \/ ContainsError(ts[1].id))

\* The condition of line 667.  generate_tasks returns a list of dicts that
\* all have an "id", so tasks[0].get("id") is falsy exactly for the id "".
NeedsFallback(ts) ==
    \/ ts = <<>>
    \/ ts[1].id = <<>>
    \/ ContainsError(ts[1].id)

\* The fallback task with the goal cut to its first symbol.
FallbackTasks_GoalCut(user_query) ==
    << Task(<<"Attempt to address original query directly: ">> \o Take(user_query, 1),
            fallback_direct_query_task) >>

\* Lines 672-677.
FallbackTasks(user_query) ==
    << Task(<<"Attempt to address original query directly: ">> \o user_query,
            fallback_direct_query_task) >>

\* Lines 667-682: the task list that enters the loop.
SelectTaskList(user_query, ts) ==
    IF NeedsFallback(ts) THEN FallbackTasks(user_query) ELSE ts

\* Line 689.
SharedMemoryBlock(user_query) ==
    <<"User role: Senior DevOps Engineer. Overall User Goal: ">> \o user_query

\* task_description[:80] of line 705.
FocusLimit == 80

\* StepContext with the previous step's output added to the memory string.
StepContext_OutputInMemory(user_query, ts, i, chat_history) ==
    LET task_info == ts[i + 1]
    IN  [task |-> task_info.description,
         cloud_logs |-> <<"Simulated logs for task ">> \o task_info.id
                          \o <<": System health nominal. ...">>,
         graph_code |-> <<"{'services': ... 'unknown_at_start_of_task_">>
                          \o task_info.id \o <<"'}}}">>,
         memory_block |-> SharedMemoryBlock(user_query)
                          \o <<" Current step: ", NumSym(i + 1), "/",
                               NumSym(Len(ts)), ". Focus: ">>
                          \o Take(task_info.description, FocusLimit)
                          \o <<"...">>
                          \o (IF chat_history = <<>> THEN <<>>
                              ELSE chat_history[Len(chat_history)].content),
         chat_history |-> chat_history]

\* Lines 703-705 and 709-715: the arguments of agent.invoke for the task at
\* 0-based index i.
StepContext(user_query, ts, i, chat_history) ==
    LET task_info == ts[i + 1]
    IN  [task |-> task_info.description,
         cloud_logs |-> <<"Simulated logs for task ">> \o task_info.id
                          \o <<": System health nominal. ...">>,
         graph_code |-> <<"{'services': ... 'unknown_at_start_of_task_">>
                          \o task_info.id \o <<"'}}}">>,
         memory_block |-> SharedMemoryBlock(user_query)
                          \o <<" Current step: ", NumSym(i + 1), "/",
                               NumSym(Len(ts)), ". Focus: ">>
                          \o Take(task_info.description, FocusLimit)
                          \o <<"...">>,
         chat_history |-> chat_history]

(***************************************************************************)
(* CloudAIAgent.invoke.                                                    *)
(***************************************************************************)
HumanMessage(c) == [type |-> "human", content |-> c]
AIMessage(c) == [type |-> "ai", content |-> c]

\* ProcessChatHistory that keeps the two most recent turns only.
ProcessChatHistory_RecentOnly(chat_history) ==
    LET first == IF Len(chat_history) > 2 THEN Len(chat_history) - 1 ELSE 1
        recent == SubSeq(chat_history, first, Len(chat_history))
    IN  [k \in 1..Len(recent) |->
           IF recent[k].role = "user" THEN HumanMessage(recent[k].content)
           ELSE AIMessage(recent[k].content)]

\* Lines 270-276: user turns become HumanMessages, ai and assistant turns
\* AIMessages, any other turn is left out.
RECURSIVE ProcessChatHistory(_)
ProcessChatHistory(chat_history) ==
    IF chat_history = <<>> THEN <<>>
    ELSE LET msg == Head(chat_history)
             rest == ProcessChatHistory(Tail(chat_history))
         IN  IF msg.role = "user" THEN <<HumanMessage(msg.content)>> \o rest
             ELSE IF msg.role = "ai" \/ msg.role = "assistant"
                  THEN <<AIMessage(msg.content)>> \o rest
             ELSE rest

\* x or "N/A"
OrNA(x) == IF x = <<>> THEN <<"N/A">> ELSE x

\* Lines 278-284: the inputs handed to the AgentExecutor.
ExecutorInputs(ctx) ==
    [input |-> ctx.task,
     cloud_logs |-> OrNA(ctx.cloud_logs),
     graph_code |-> OrNA(ctx.graph_code),
     memory_block |-> OrNA(ctx.memory_block),
     chat_history |-> ProcessChatHistory(ctx.chat_history)]

\* What agent_executor.invoke(inputs) can do: return a dict with an
\* "output" (the model's final answer, or the executor's own text when its
\* iteration budget runs out or a parsing error was handled), return a dict
\* without one, or raise (a model call or a tool that raised).
ExecutorOutcomes ==
    { [kind |-> "return", has_output |-> TRUE, text |-> <<"final answer">>],
      [kind |-> "return", has_output |-> TRUE,
       text |-> <<"Agent stopped due to iteration limit or time limit.">>],
      [kind |-> "return", has_output |-> FALSE, text |-> <<"{...}">>],
      [kind |-> "raise", has_output |-> FALSE, text |-> <<"model call failed">>],
      [kind |-> "raise", has_output |-> FALSE, text |-> <<"tool failed">>] }

\* Lines 285-290: the dict invoke returns; a raise of the executor becomes
\* an output text.
InvokeResponse(outcome) ==
    IF outcome.kind = "raise"
    THEN [has_output |-> TRUE, text |-> <<"An error occurred: ">> \o outcome.text]
    ELSE [has_output |-> outcome.has_output, text |-> outcome.text]

\* Line 717: response.get('output', f'No output field in response. ...').
AgentOutput(response) ==
    IF response.has_output THEN response.text
    ELSE <<"No output field in response. Full response: ">> \o response.text

ChatTurn(role, content) == [role |-> role, content |-> content]

\* AppendTurns without the user turn.
AppendTurns_AiTurnOnly(chat_history, task_description, agent_output) ==
    Append(chat_history, ChatTurn("ai", agent_output))

\* Lines 721-722.
AppendTurns(chat_history, task_description, agent_output) ==
    Append(Append(chat_history, ChatTurn("user", task_description)),
           ChatTurn("ai", agent_output))

(***************************************************************************)
(* The planner's responses the model draws from.  A response is described  *)
(* by a document: what the language model meant to say (a list of items)   *)
(* and how it wrote it down (as a TaskList object, or as text: the JSON    *)
(* shape, a fence around it, prose before and after it, a truncation).     *)
(* Render turns the document into the response the code sees.              *)
(***************************************************************************)

\* String values of a description: a plain word, closing brackets of both
\* kinds, a fence marker.
DescStrings == { <<"a">>, <<RBracket, RBrace>>, <<Fence>> }

\* String values of an id: a plain id, an id that contains "Error", "".
IdStrings == { <<"t1">>, <<"fix_", "Error", "_handling">>, <<>> }

Item(kind, d, i) == [kind |-> kind, d |-> d, i |-> i]

\* Items with a description and an id.
FullItems ==
    {Item("full", d, <<"t1">>) : d \in DescStrings}
      \cup {Item("full", <<"a">>, i) : i \in IdStrings}

\* An item is a mapping with description and id, one without id, one
\* without description, or no mapping at all (null).
ItemDescs ==
    FullItems
      \cup {Item("noid", d, <<>>) : d \in DescStrings}
      \cup {Item("nodesc", <<>>, <<"t1">>), Item("null", <<>>, <<>>)}

SeqsUpTo(S, n) == UNION {[1..k -> S] : k \in 0..n}

ItemValue(it) ==
    CASE it.kind = "full" ->
           JObj(<<Member(<<"description">>, JStr(it.d)), Member(<<"id">>, JStr(it.i))>>)
      [] it.kind = "noid" -> JObj(<<Member(<<"description">>, JStr(it.d))>>)
      [] it.kind = "nodesc" -> JObj(<<Member(<<"id">>, JStr(it.i))>>)
      [] OTHER -> JNull

ItemValues(items) == [k \in 1..Len(items) |-> ItemValue(items[k])]

\* The JSON value a text document writes down: the item list itself, an
\* object with the list under "tasks", or an object with the list under
\* another key.
DocValue(doc) ==
    CASE doc.shape = "list" -> JArr(ItemValues(doc.items))
      [] doc.shape = "dict" -> JObj(<<Member(<<"tasks">>, JArr(ItemValues(doc.items)))>>)
      [] OTHER -> JObj(<<Member(<<"result">>, JArr(ItemValues(doc.items)))>>)

\* JSON text of a value, written as json.dumps writes it.
RECURSIVE Ser(_), SerElems(_), SerMembers(_)
Ser(v) ==
    CASE v.t = "str" -> <<Q>> \o v.s \o <<Q>>
      [] v.t = "null" -> <<NullWord>>
      [] v.t = "num" -> <<v.d>>
      [] v.t = "arr" -> <<LBracket>> \o SerElems(v.e) \o <<RBracket>>
      [] OTHER -> <<LBrace>> \o SerMembers(v.m) \o <<RBrace>>
SerElems(e) ==
    IF e = <<>> THEN <<>>
    ELSE IF Len(e) = 1 THEN Ser(e[1])
    ELSE Ser(e[1]) \o <<Comma, Space>> \o SerElems(Tail(e))
SerMembers(m) ==
    IF m = <<>> THEN <<>>
    ELSE LET one == <<Q>> \o m[1].k \o <<Q, Colon, Space>> \o Ser(m[1].v)
         IN  IF Len(m) = 1 THEN one
             ELSE one \o <<Comma, Space>> \o SerMembers(Tail(m))

\* Prose before the JSON: none, plain words, words with a bracketed
\* reference.
Prefixes == { <<>>, <<"Here are the tasks:", Newline>>,
              <<"See", Space, LBracket, "1", RBracket, Colon, Newline>> }

\* The text of a document: the JSON text without its last doc.cut symbols,
\* in a labelled fence when doc.fenced, after the prose doc.pre (and, when
\* there is prose before, with prose after).
DocContent(doc) ==
    LET json == Ser(DocValue(doc))
        body == IF doc.shape = "prose" THEN <<"None">>
                ELSE SubSeq(json, 1, Len(json) - doc.cut)
        block == IF doc.fenced
                 THEN <<FenceJson, Newline>> \o body \o <<Newline, Fence>>
                 ELSE body
    IN  IF doc.pre = <<>> THEN block
        ELSE doc.pre \o block \o <<Newline, "Done.">>

Doc(kind, shape, items, fenced, pre, cut) ==
    [kind |-> kind, shape |-> shape, items |-> items, fenced |-> fenced,
     pre |-> pre, cut |-> cut]

\* TaskList objects: every Task has a description and an id, both strings.
StructuredDocs(S, n) ==
    {Doc("structured", "list", items, FALSE, <<>>, 0) : items \in SeqsUpTo(S, n)}

\* Text responses: whole JSON under every wrapping, truncated JSON without
\* prose, JSON of the wrong shape, and prose without JSON.
TextDocs(n) ==
    {Doc("text", shape, items, fenced, pre, 0) :
        shape \in {"list", "dict"}, items \in SeqsUpTo(ItemDescs, n),
        fenced \in BOOLEAN, pre \in Prefixes}
      \cup {Doc("text", shape, items, fenced, <<>>, 1) :
              shape \in {"list", "dict"}, items \in SeqsUpTo(ItemDescs, n),
              fenced \in BOOLEAN}
      \cup {Doc("text", shape, <<>>, fenced, <<>>, 0) :
              shape \in {"object", "prose"}, fenced \in BOOLEAN}

RaiseDoc == Doc("raise", "prose", <<>>, FALSE, <<>>, 0)

Render(doc) ==
    CASE doc.kind = "structured" ->
           StructuredResponse([k \in 1..Len(doc.items) |->
                                 Task(doc.items[k].d, doc.items[k].i)])
      [] doc.kind = "raise" -> RaiseResponse
      [] OTHER -> TextResponse(DocContent(doc))

\* The planner responses of the planning specification.
PlanDocs ==
    StructuredDocs(FullItems, MaxItems) \cup TextDocs(MaxItems) \cup {RaiseDoc}

\* The goals of the planning specification: the empty goal and the route's.
PlanGoals == { <<>>, initial_user_query }

\* The planner responses of the loop specification: task lists of up to
\* MaxTasks tasks with two different descriptions and a first id that does
\* or does not ask for the fallback, unfenced text with at most one item,
\* and a raising planner call.
LoopItems ==
    { Item("full", <<"a">>, <<"t1">>), Item("full", <<RBracket, RBrace>>, <<"t1">>),
      Item("full", <<"a">>, <<"fix_", "Error", "_handling">>),
      Item("full", [k \in 1..(FocusLimit + 1) |-> "x"], <<"t2">>) }

LoopDocs ==
    StructuredDocs(LoopItems, MaxTasks)
      \cup {d \in TextDocs(1) : d.pre = <<>> /\ ~d.fenced}
      \cup {RaiseDoc}

(***************************************************************************)
(* The working directory.  A file name is the sequence of its parts, so    *)
(* that str.endswith is computed on it; a file is absent, or has a content *)
(* (a text of symbols), can or cannot be opened for reading, and carries   *)
(* the run that wrote it ("earlier": before this request, "current":       *)
(* during it).                                                             *)
(***************************************************************************)
original_tf == <<"original", ".tf">>
logs_json == <<"logs", ".json">>
original_terraform_tf == <<"original_terraform", ".tf">>
report_txt == <<"report", ".txt">>
original_graph_txt == <<"original", "_graph", ".txt">>
changed_graph_txt == <<"changed", "_graph", ".txt">>
changed_terraform_tf == <<"changed_terraform", ".tf">>
infrastructure_data_json == <<"infrastructure_data", ".json">>
infrastructure_diagram_txt == <<"infrastructure", "_diagram", ".txt">>
security_relationship_graph_txt == <<"security_relationship", "_graph", ".txt">>

\* The four files func reads back after the loop, in the order it opens them.
Artifacts == <<report_txt, original_graph_txt, changed_graph_txt, changed_terraform_tf>>

ArtifactSet == {Artifacts[k] : k \in 1..Len(Artifacts)}

FileNames ==
    {original_tf, logs_json, original_terraform_tf, infrastructure_data_json,
     infrastructure_diagram_txt, security_relationship_graph_txt} \cup ArtifactSet

\* file.endswith(suffix)
EndsWith(file, suffix) ==
    /\ Len(suffix) <= Len(file)
    /\ SubSeq(file, Len(file) - Len(suffix) + 1, Len(file)) = suffix

Absent == [exists |-> FALSE, opens |-> FALSE, content |-> <<>>, run |-> "none"]

File(content, run) == [exists |-> TRUE, opens |-> TRUE, content |-> content, run |-> run]

\* A file that exists and that open() refuses (its permissions, or a
\* directory of that name).
Locked(run) == [exists |-> TRUE, opens |-> FALSE, content |-> <<>>, run |-> run]

\* ReadFile with a missing file read as an empty one.
ReadFile_MissingIsEmpty(fs, name) ==
    IF fs[name].exists /\ ~fs[name].opens
    THEN [ok |-> FALSE, error |-> "PermissionError", content |-> <<>>]
    ELSE [ok |-> TRUE, error |-> "none", content |-> fs[name].content]

\* open(name, "r") and read(): the content, FileNotFoundError, or another
\* OSError.
ReadFile(fs, name) ==
    IF ~fs[name].exists
    THEN [ok |-> FALSE, error |-> "FileNotFoundError", content |-> <<>>]
    ELSE IF ~fs[name].opens
    THEN [ok |-> FALSE, error |-> "PermissionError", content |-> <<>>]
    ELSE [ok |-> TRUE, error |-> "none", content |-> fs[name].content]

\* open(name, "w") and write(content), when it succeeds.
WriteFile(fs, name, content) == [fs EXCEPT ![name] = File(content, "current")]

\* The terraform text of original.tf and the two contents of logs.json the
\* model draws from: a JSON document and a text json.load rejects.
TerraformText == <<"resource ", Q, "aws_s3_bucket", Q, " ", LBrace, RBrace>>

LogsContents == { <<LBrace, Q, "Records", Q, Colon, LBracket, RBracket, RBrace>>,
                  <<LBrace, Q, "Records", Q, Colon>> }

(***************************************************************************)
(* State.                                                                  *)
(***************************************************************************)
VARIABLES
    user_query,            \* the goal handed to the planner
    doc,                   \* what the planner's model answers (see Render)
    response,              \* the value planner_runnable.invoke returns
    planner_runnable,      \* "none" | "structured" | "manual"
    pc,                    \* where func is
    planned,               \* the list generate_tasks returned
    tasks,                 \* the list that enters the loop
    loop_i,                \* the loop's 0-based index i
    current_chat_history,  \* the chat turns appended so far
    invocations,           \* the arguments of every agent.invoke, in order
    outcomes,              \* what the executor did in every invoke, in order
    exc,                   \* the call whose exception left func, or "none"
    route,                 \* the route of the request
    files,                 \* the working directory: file name -> file
    tf,                    \* the text func read from original.tf
    ops,                   \* the calls the handler has made, in order
    status,                \* the status of the HTTP response, 0 before it
    body,                  \* the body of the HTTP response
    handlers,              \* the server's requests: id -> route, operations done
    running                \* the request whose handler the event loop runs

vars == <<user_query, doc, response, planner_runnable, pc, planned, tasks,
          loop_i, current_chat_history, invocations, outcomes, exc,
          route, files, tf, ops, status, body, handlers, running>>

\* The one request of the specifications of a single handler.
OneRequest(r) == [id \in {"1"} |-> [route |-> r, done |-> 0]]

\* No response has been sent.
NoResponse == [pending |-> <<>>]

\* The directory lines 600-639 leave when both inputs are there and no
\* older output is.
RunDirectory ==
    [name \in FileNames |->
        CASE name = original_tf -> File(TerraformText, "earlier")
          [] name = logs_json ->
               File(<<LBrace, Q, "Records", Q, Colon, LBracket, RBracket, RBrace>>,
                    "earlier")
          [] name = original_terraform_tf -> File(TerraformText, "current")
          [] OTHER -> Absent]

InitWith(docs, goals) ==
    /\ user_query \in goals
    /\ doc \in docs
    /\ response = Render(doc)
    /\ planner_runnable = "none"
    /\ pc = "planner_init"
    /\ planned = <<>>
    /\ tasks = <<>>
    /\ loop_i = 0
    /\ current_chat_history = <<>>
    /\ invocations = <<>>
    /\ outcomes = <<>>
    /\ exc = "none"
    /\ route = "/process_terraform/"
    /\ files = RunDirectory
    /\ tf = TerraformText
    /\ ops = <<"open original.tf", "open logs.json", "purge",
               "write original_terraform.tf">>
    /\ status = 0
    /\ body = NoResponse
    /\ handlers = OneRequest(route)
    /\ running = "1"

\* An exception nothing in func catches: it leaves the handler.
Propagate(site) ==
    /\ pc' = "raised"
    /\ exc' = site

\* with_structured_output hands back a TaskList, or None when the model's
\* answer does not fit the schema (str(None) is the text "None"), or raises.
StructuredCanReturn(d) ==
    \/ d.kind \in {"structured", "raise"}
    \/ d.kind = "text" /\ d.shape = "prose" /\ ~d.fenced /\ d.pre = <<>>

\* TaskPlannerAgent() of line 662: __init__ builds the model client, which
\* nothing guards, and _create_planner_runnable keeps the structured-output
\* runnable when its test call returns a TaskList and falls back to the
\* plain runnable (manual parsing) otherwise.
TaskPlannerInit ==
    /\ pc = "planner_init"
    /\ \/ /\ Propagate("TaskPlannerAgent.__init__")
          /\ UNCHANGED planner_runnable
       \/ /\ StructuredCanReturn(doc)
          /\ planner_runnable' = "structured"
          /\ pc' = "plan"
          /\ UNCHANGED exc
       \/ /\ doc.kind # "structured"
          /\ planner_runnable' = "manual"
          /\ pc' = "plan"
          /\ UNCHANGED exc
    /\ ops' = Append(ops, "TaskPlannerAgent()")
    /\ UNCHANGED <<user_query, doc, response, planned, tasks, loop_i,
                   current_chat_history, invocations, outcomes>>
    /\ UNCHANGED <<route, files, tf, status, body>>
    /\ UNCHANGED <<handlers, running>>

\* Line 665: tasks = task_planner.generate_tasks(initial_user_query).
GenerateTasks ==
    /\ pc = "plan"
    /\ planned' = generate_tasks(response)
    /\ pc' = "select"
    /\ ops' = Append(ops, "generate_tasks")
    /\ UNCHANGED <<user_query, doc, response, planner_runnable, tasks, loop_i,
                   current_chat_history, invocations, outcomes, exc>>
    /\ UNCHANGED <<route, files, tf, status, body>>
    /\ UNCHANGED <<handlers, running>>

\* Lines 667-690: the fallback substitution and the loop's initial context.
SelectTasks ==
    /\ pc = "select"
    /\ tasks' = SelectTaskList(user_query, planned)
    /\ current_chat_history' = <<>>
    /\ loop_i' = 0
    /\ pc' = "loop"
    /\ UNCHANGED <<user_query, doc, response, planner_runnable, planned,
                   invocations, outcomes, exc>>
    /\ UNCHANGED <<route, files, tf, ops, status, body>>
    /\ UNCHANGED <<handlers, running>>

\* Line 701: agent = CloudAIAgent(**agent_init_kwargs), outside any try.
\* The model client, the embeddings of get_retriever_tool and the agent
\* construction can raise.
CloudAIAgentInit ==
    /\ pc = "loop"
    /\ loop_i < Len(tasks)
    /\ \/ Propagate("CloudAIAgent.__init__")
       \/ /\ pc' = "invoke"
          /\ UNCHANGED exc
    /\ ops' = Append(ops, "CloudAIAgent()")
    /\ UNCHANGED <<user_query, doc, response, planner_runnable, planned, tasks,
                   loop_i, current_chat_history, invocations, outcomes>>
    /\ UNCHANGED <<route, files, tf, status, body>>
    /\ UNCHANGED <<handlers, running>>

\* Lines 703-722: agent.invoke with the step's context, the output taken
\* from its response, and the two chat turns appended.
InvokeAgent ==
    /\ pc = "invoke"
    /\ \E outcome \in ExecutorOutcomes :
         LET ctx == StepContext(user_query, tasks, loop_i, current_chat_history)
             agent_output == AgentOutput(InvokeResponse(outcome))
         IN  /\ invocations' = Append(invocations, ExecutorInputs(ctx))
             /\ outcomes' = Append(outcomes, outcome)
             /\ current_chat_history' =
                  AppendTurns(current_chat_history, ctx.task, agent_output)
    /\ loop_i' = loop_i + 1
    /\ pc' = "loop"
    /\ ops' = Append(ops, "agent.invoke")
    /\ UNCHANGED <<user_query, doc, response, planner_runnable, planned, tasks, exc>>
    /\ UNCHANGED <<route, files, tf, status, body>>
    /\ UNCHANGED <<handlers, running>>

\* LoopExit that goes back to planning.
LoopExit_Replans ==
    /\ pc = "loop"
    /\ loop_i = Len(tasks)
    /\ pc' = "plan"
    /\ UNCHANGED <<user_query, doc, response, planner_runnable, planned, tasks,
                   loop_i, current_chat_history, invocations, outcomes, exc>>
    /\ UNCHANGED <<route, files, tf, ops, status, body>>
    /\ UNCHANGED <<handlers, running>>

\* Line 724: the for loop is exhausted.
LoopExit ==
    /\ pc = "loop"
    /\ loop_i = Len(tasks)
    /\ pc' = "all_processed"
    /\ UNCHANGED <<user_query, doc, response, planner_runnable, planned, tasks,
                   loop_i, current_chat_history, invocations, outcomes, exc>>
    /\ UNCHANGED <<route, files, tf, ops, status, body>>
    /\ UNCHANGED <<handlers, running>>

\* The plan-and-execute phase of /process_terraform/.
Init == InitWith(LoopDocs, {initial_user_query})

Next ==
    \/ TaskPlannerInit
    \/ GenerateTasks
    \/ SelectTasks
    \/ CloudAIAgentInit
    \/ InvokeAgent
    \/ LoopExit

Spec == Init /\ [][Next]_vars

\* The same phase with its scheduling: func is one sequential pass that the
\* interpreter keeps running, so a step that can be taken is taken.  The
\* planner answers with a task list object (of tasks with the id t1), with
\* prose, or raises: task lists of every length of the loop specification.
InitFair ==
    InitWith({d \in LoopDocs :
                 /\ d.kind # "text" \/ d.shape = "prose"
                 /\ \A k \in 1..Len(d.items) : d.items[k].i = <<"t1">>},
             {initial_user_query})

SpecFair == InitFair /\ [][Next]_vars /\ WF_vars(Next)

\* Planning alone, over every response and goal of the model.
InitPlan == InitWith(PlanDocs, PlanGoals)

NextPlan ==
    \/ TaskPlannerInit
    \/ GenerateTasks
    \/ SelectTasks

SpecPlan == InitPlan /\ [][NextPlan]_vars

(***************************************************************************)
(* The whole handler of /process_terraform/ (lines 597-743): the two input *)
(* files are read, older outputs purged, the copy of the terraform text    *)
(* written, the plan made and run, and the four artifacts read back.       *)
(***************************************************************************)

\* The longest task list of the route specification.
MaxRouteTasks == 2

\* A JSONResponse: the handler returns.
Respond(code, content) ==
    /\ status' = code
    /\ body' = content
    /\ pc' = "responded"

\* str(e) of the OSError open() raises.
OSErrorText(error, name) ==
    IF error = "FileNotFoundError"
    THEN <<"[Errno 2] No such file or directory: '">> \o name \o <<"'">>
    ELSE <<"[Errno 13] Permission denied: '">> \o name \o <<"'">>

\* Lines 600-612.
ReadOriginalTf ==
    /\ pc = "read_original_tf"
    /\ LET r == ReadFile(files, original_tf)
       IN  IF r.ok
           THEN /\ tf' = r.content
                /\ pc' = "read_logs_json"
                /\ UNCHANGED <<status, body>>
           ELSE /\ IF r.error = "FileNotFoundError"
                   THEN Respond(404, [error |-> (<<"original.tf",
                          " file not found in the current directory. Please ensure the file exists.">>)])
                   ELSE Respond(500, [error |-> (<<"Error reading ", "original.tf", " file: ">>
                                                 \o OSErrorText(r.error, original_tf))])
                /\ UNCHANGED tf
    /\ ops' = Append(ops, "open original.tf")
    /\ UNCHANGED <<user_query, doc, response, planner_runnable, planned, tasks,
                   loop_i, current_chat_history, invocations, outcomes, exc,
                   route, files>>
    /\ UNCHANGED <<handlers, running>>

\* Lines 615-627: json.load(f) raises on a text that is not JSON.
ReadLogsJson ==
    /\ pc = "read_logs_json"
    /\ LET r == ReadFile(files, logs_json)
       IN  IF r.ok /\ json_loads(r.content).ok
           THEN /\ pc' = "purge"
                /\ UNCHANGED <<status, body>>
           ELSE IF r.error = "FileNotFoundError"
           THEN Respond(404, [error |-> (<<"logs.json",
                  " file not found in the current directory. Please ensure the file exists.">>)])
           ELSE Respond(500, [error |-> (<<"Error reading ", "logs.json", " file: ">>
                                         \o (IF r.ok
                                             THEN <<"Expecting value: line 1 column 1 (char 0)">>
                                             ELSE OSErrorText(r.error, logs_json)))])
    /\ ops' = Append(ops, "open logs.json")
    /\ UNCHANGED <<user_query, doc, response, planner_runnable, planned, tasks,
                   loop_i, current_chat_history, invocations, outcomes, exc,
                   route, files, tf>>
    /\ UNCHANGED <<handlers, running>>

\* PurgeTargets without the exception for original.tf.
PurgeTargets_NoExclusion(fs) ==
    {name \in FileNames :
        /\ fs[name].exists
        /\ EndsWith(name, <<".txt">>) \/ EndsWith(name, <<".tf">>)}

\* The files the loop of lines 630-635 calls os.remove on.
PurgeTargets(fs) ==
    {name \in FileNames :
        /\ fs[name].exists
        /\ EndsWith(name, <<".txt">>) \/ EndsWith(name, <<".tf">>)
        /\ name # original_tf}

\* Lines 630-635: every target is removed, except those whose os.remove
\* raises: the exception is caught and a warning printed.
PurgeOutputs ==
    /\ pc = "purge"
    /\ \E failed \in SUBSET PurgeTargets(files) :
         files' = [name \in FileNames |->
                     IF name \in PurgeTargets(files) \ failed
                     THEN Absent ELSE files[name]]
    /\ pc' = "copy"
    /\ ops' = Append(ops, "purge")
    /\ UNCHANGED <<user_query, doc, response, planner_runnable, planned, tasks,
                   loop_i, current_chat_history, invocations, outcomes, exc,
                   route, tf, status, body>>
    /\ UNCHANGED <<handlers, running>>

\* Lines 638-639: open(..., "w") is outside any try; it raises when a file
\* of that name is still there and cannot be opened.
CopyOriginal ==
    /\ pc = "copy"
    /\ IF files[original_terraform_tf].exists /\ ~files[original_terraform_tf].opens
       THEN /\ Propagate("open original_terraform.tf")
            /\ UNCHANGED files
       ELSE /\ files' = WriteFile(files, original_terraform_tf, tf)
            /\ pc' = "planner_init"
            /\ UNCHANGED exc
    /\ ops' = Append(ops, "write original_terraform.tf")
    /\ UNCHANGED <<user_query, doc, response, planner_runnable, planned, tasks,
                   loop_i, current_chat_history, invocations, outcomes,
                   route, tf, status, body>>
    /\ UNCHANGED <<handlers, running>>

\* What the tools of a step write into an artifact.
ToolText == <<"written by a tool of the step executor">>

\* While agent.invoke runs, the executor's model may call write_file_tool
\* or execute_script_tool (lines 79-81, 236-242), which write files of the
\* working directory.
ToolWriteFile ==
    /\ pc = "invoke"
    /\ \E name \in ArtifactSet :
         /\ files[name] # File(ToolText, "current")
         /\ files' = WriteFile(files, name, ToolText)
    /\ UNCHANGED <<user_query, doc, response, planner_runnable, pc, planned, tasks,
                   loop_i, current_chat_history, invocations, outcomes, exc,
                   route, tf, ops, status, body>>
    /\ UNCHANGED <<handlers, running>>

OpenOp(name) ==
    CASE name = report_txt -> "open report.txt"
      [] name = original_graph_txt -> "open original_graph.txt"
      [] name = changed_graph_txt -> "open changed_graph.txt"
      [] OTHER -> "open changed_terraform.tf"

\* Payload without the report.
Payload_NoReport(fs, original_terraform) ==
    [original_graph |-> ReadFile(fs, original_graph_txt).content,
     changed_graph |-> ReadFile(fs, changed_graph_txt).content,
     changed_terraform |-> ReadFile(fs, changed_terraform_tf).content,
     original_terraform |-> original_terraform]

\* Lines 737-743: the content of the 200 response.
Payload(fs, original_terraform) ==
    [report |-> ReadFile(fs, report_txt).content,
     original_graph |-> ReadFile(fs, original_graph_txt).content,
     changed_graph |-> ReadFile(fs, changed_graph_txt).content,
     changed_terraform |-> ReadFile(fs, changed_terraform_tf).content,
     original_terraform |-> original_terraform]

\* Lines 728-743: the four artifacts are opened in order, outside any try;
\* the first open() that raises leaves func, otherwise the payload is
\* returned.
ReadBack ==
    /\ pc = "all_processed"
    /\ LET failing == {k \in 1..Len(Artifacts) : ~ReadFile(files, Artifacts[k]).ok}
           last == IF failing = {} THEN Len(Artifacts) ELSE Min(failing)
       IN  /\ ops' = ops \o [k \in 1..last |-> OpenOp(Artifacts[k])]
           /\ IF failing = {}
              THEN /\ Respond(200, Payload(files, tf))
                   /\ UNCHANGED exc
              ELSE /\ Propagate(OpenOp(Artifacts[last]))
                   /\ UNCHANGED <<status, body>>
    /\ UNCHANGED <<user_query, doc, response, planner_runnable, planned, tasks,
                   loop_i, current_chat_history, invocations, outcomes,
                   route, files, tf>>
    /\ UNCHANGED <<handlers, running>>

\* An exception that leaves func reaches the framework (the app of line
\* 297 is built without debug): it answers 500 with a fixed text.
ServerErrorResponse ==
    /\ pc = "raised"
    /\ Respond(500, [text |-> <<"Internal Server Error">>])
    /\ UNCHANGED <<user_query, doc, response, planner_runnable, planned, tasks,
                   loop_i, current_chat_history, invocations, outcomes, exc,
                   route, files, tf, ops>>
    /\ UNCHANGED <<handlers, running>>

\* What an earlier run left in an output file.
EarlierText == <<"written by an earlier run">>

\* The working directories a request can find: each input there, absent or
\* not to be opened (logs.json also there with a text that is not JSON),
\* and each output of an earlier run there or not.
RouteDirectories ==
    {[name \in FileNames |->
         CASE name = original_tf -> original
           [] name = logs_json -> logs
           [] name = original_terraform_tf -> copy
           [] name \in earlier -> File(EarlierText, "earlier")
           [] OTHER -> Absent] :
        original \in {Absent, File(TerraformText, "earlier"), Locked("earlier")},
        logs \in {Absent, Locked("earlier")} \cup {File(c, "earlier") : c \in LogsContents},
        copy \in {Absent, File(EarlierText, "earlier"), Locked("earlier")},
        earlier \in SUBSET ArtifactSet}

\* The planner responses of the route specification.
RouteDocs ==
    StructuredDocs({Item("full", <<"a">>, <<"t1">>)}, MaxRouteTasks) \cup {RaiseDoc}

InitRoute ==
    /\ user_query = initial_user_query
    /\ doc \in RouteDocs
    /\ response = Render(doc)
    /\ planner_runnable = "none"
    /\ pc = "read_original_tf"
    /\ planned = <<>>
    /\ tasks = <<>>
    /\ loop_i = 0
    /\ current_chat_history = <<>>
    /\ invocations = <<>>
    /\ outcomes = <<>>
    /\ exc = "none"
    /\ route = "/process_terraform/"
    /\ files \in RouteDirectories
    /\ tf = <<>>
    /\ ops = <<>>
    /\ status = 0
    /\ body = NoResponse
    /\ handlers = OneRequest(route)
    /\ running = "1"

NextRoute ==
    \/ ReadOriginalTf
    \/ ReadLogsJson
    \/ PurgeOutputs
    \/ CopyOriginal
    \/ TaskPlannerInit
    \/ GenerateTasks
    \/ SelectTasks
    \/ CloudAIAgentInit
    \/ ToolWriteFile
    \/ InvokeAgent
    \/ LoopExit
    \/ ReadBack
    \/ ServerErrorResponse

SpecRoute == InitRoute /\ [][NextRoute]_vars

(***************************************************************************)
(* The two diagram routes, /generate_infrastructure_diagram/ (lines        *)
(* 314-475) and /generate_security_graph/ (lines 477-595): the input is    *)
(* saved, older diagrams removed (first route only), the model called, and *)
(* its answer cleaned, written to the artifact, read back and returned.    *)
(***************************************************************************)

\* The most content lines of a model answer.
MaxLines == 2

\* text.split(newline)
RECURSIVE SplitLines(_)
SplitLines(text) ==
    LET at == Find(text, Newline)
    IN  IF at = 0 THEN <<text>>
        ELSE <<SubSeq(text, 1, at - 1)>> \o SplitLines(SubSeq(text, at + 1, Len(text)))

\* newline.join(lines)
RECURSIVE JoinLines(_)
JoinLines(lines) ==
    IF lines = <<>> THEN <<>>
    ELSE IF Len(lines) = 1 THEN lines[1]
    ELSE lines[1] \o <<Newline>> \o JoinLines(Tail(lines))

\* text.startswith(three backticks)
StartsWithFence(text) == text # <<>> /\ IsFence(text[1])

\* text.lower().startswith('graph')
StartsWithGraph(text) == text # <<>> /\ LowerSym(text[1]) = "graph"

\* Lines 427-441 and 556-570, on the stripped text: the lines after the
\* first line that starts with a fence marker and before the next such line
\* (start_idx and end_idx are the 0-based indexes of the code).
StripFences(text) ==
    IF ~StartsWithFence(text) THEN text
    ELSE LET lines == SplitLines(text)
             fence_lines == {i \in 0..(Len(lines) - 1) :
                               StartsWithFence(Strip(lines[i + 1]))}
             start_idx == Min(fence_lines) + 1
             later == {i \in fence_lines : i > Min(fence_lines)}
             end_idx == IF later = {} THEN Len(lines) ELSE Min(later)
         IN  JoinLines(SubSeq(lines, start_idx + 1, end_idx))

\* Lines 443-445 and 572-574.
EnsureGraph(text) ==
    IF StartsWithGraph(Strip(text)) THEN text
    ELSE <<"graph", Space, "TD", Newline>> \o text

\* Lines 424-445 and 553-574: the text written to the artifact.
CleanDiagram(content) == EnsureGraph(StripFences(Strip(content)))

\* The model's answers the diagram routes draw from.  An answer is
\* described by its content lines and how it wraps them: no fence, or an
\* opening fence line (bare or labelled) and a closing marker on a line of
\* its own, at the end of the last content line, or missing.
DiagramLines ==
    { <<"graph", Space, "TD">>, <<"Graph", Space, "LR">>, <<"A-->B">>,
      <<Space, Space, "B-->C">> }

DiagramDocs ==
    {[kind |-> "text", fenced |-> TRUE, opening |-> o, lines |-> ls, closing |-> c] :
        o \in {<<Fence>>, <<Fence, "mermaid">>, <<Space, Fence, "mermaid">>},
        ls \in SeqsUpTo(DiagramLines, MaxLines),
        c \in {"own line", "same line", "none"}}
      \cup {[kind |-> "text", fenced |-> FALSE, opening |-> <<>>, lines |-> ls,
             closing |-> "none"] : ls \in SeqsUpTo(DiagramLines, MaxLines)}
      \cup {[kind |-> "raise", fenced |-> FALSE, opening |-> <<>>, lines |-> <<>>,
             closing |-> "none"]}

\* response.content of the answer.
DiagramContent(d) ==
    IF ~d.fenced THEN JoinLines(d.lines)
    ELSE d.opening \o <<Newline>> \o JoinLines(d.lines)
           \o (CASE d.closing = "own line" -> <<Newline, Fence, Newline>>
                 [] d.closing = "same line" -> <<Fence>>
                 [] OTHER -> <<>>)

DiagramRoutes == {"/generate_infrastructure_diagram/", "/generate_security_graph/"}

\* The artifact of a diagram route.
DiagramFile(r) ==
    IF r = "/generate_infrastructure_diagram/" THEN infrastructure_diagram_txt
    ELSE security_relationship_graph_txt

\* The 500 of the except clause of lines 471-475 (first route) and 591-595
\* (second route): the text of the exception after a fixed prefix.
DiagramError(r, text) ==
    [error |-> (IF r = "/generate_infrastructure_diagram/"
                THEN <<"Error generating diagrams: ">>
                ELSE <<"Error generating security graph: ">>) \o text]

\* Lines 323-324 and 486-487: infrastructure_data.json is written.
DiagramSaveInput ==
    /\ pc = "save_input"
    /\ IF files[infrastructure_data_json].exists /\ ~files[infrastructure_data_json].opens
       THEN /\ Respond(500, DiagramError(route, OSErrorText("PermissionError",
                                                           infrastructure_data_json)))
            /\ UNCHANGED files
       ELSE /\ files' = WriteFile(files, infrastructure_data_json,
                                  <<LBrace, Q, "aws_s3_bucket", Q, Colon, LBracket,
                                    RBracket, RBrace>>)
            /\ pc' = IF route = "/generate_infrastructure_diagram/"
                     THEN "remove_previous" ELSE "call_model"
            /\ UNCHANGED <<status, body>>
    /\ ops' = Append(ops, "write infrastructure_data.json")
    /\ UNCHANGED <<user_query, doc, response, planner_runnable, planned, tasks,
                   loop_i, current_chat_history, invocations, outcomes, exc,
                   route, tf>>
    /\ UNCHANGED <<handlers, running>>

\* The files the loop of lines 328-330 calls os.remove on.
PreviousDiagrams(fs) ==
    {name \in FileNames :
        /\ fs[name].exists
        /\ EndsWith(name, <<"_diagram", ".txt">>) \/ EndsWith(name, <<"_graph", ".txt">>)}

\* Lines 328-330: os.remove is called on every target; it is not guarded,
\* so the first one that raises ends the loop in the except clause of line
\* 471, the targets listed before it removed.
DiagramRemovePrevious ==
    /\ pc = "remove_previous"
    /\ \/ /\ files' = [name \in FileNames |->
                         IF name \in PreviousDiagrams(files) THEN Absent
                         ELSE files[name]]
          /\ pc' = "call_model"
          /\ UNCHANGED <<status, body>>
       \/ \E name \in PreviousDiagrams(files) :
            \E removed \in SUBSET (PreviousDiagrams(files) \ {name}) :
               /\ files' = [other \in FileNames |->
                              IF other \in removed THEN Absent ELSE files[other]]
               /\ Respond(500, DiagramError(route, OSErrorText("PermissionError", name)))
    /\ ops' = Append(ops, "purge")
    /\ UNCHANGED <<user_query, doc, response, planner_runnable, planned, tasks,
                   loop_i, current_chat_history, invocations, outcomes, exc,
                   route, tf>>
    /\ UNCHANGED <<handlers, running>>

\* Lines 333-422 and 490-550: the saved input is read back, the prompt and
\* the model client are built and the model is called.  A call that raises
\* is answered 500 by the nearest except clause: in the first route the one
\* of line 465 around runnable.invoke.
DiagramCallModel ==
    /\ pc = "call_model"
    /\ IF doc.kind = "raise"
       THEN /\ Respond(500,
                  IF route = "/generate_infrastructure_diagram/"
                  THEN [error |-> <<"Error calling LLM for diagram generation: ",
                                    "model call failed">>]
                  ELSE DiagramError(route, <<"model call failed">>))
            /\ UNCHANGED response
       ELSE /\ response' = TextResponse(DiagramContent(doc))
            /\ pc' = "clean"
            /\ UNCHANGED <<status, body>>
    /\ ops' = Append(ops, "runnable.invoke")
    /\ UNCHANGED <<user_query, doc, planner_runnable, planned, tasks,
                   loop_i, current_chat_history, invocations, outcomes, exc,
                   route, files, tf>>
    /\ UNCHANGED <<handlers, running>>

\* Lines 455-461 and 583-588: the content of the 200 response.
DiagramBody(r, text) ==
    IF r = "/generate_infrastructure_diagram/"
    THEN [infrastructure_diagram |-> text,
          security_diagram |-> <<"Security analysis integrated into main diagram">>,
          agent_output |-> <<"Infrastructure diagram generated and saved to file">>,
          status |-> <<"success">>,
          file_saved |-> infrastructure_diagram_txt]
    ELSE [security_graph |-> text,
          status |-> <<"success">>,
          file_saved |-> security_relationship_graph_txt,
          description |-> <<"Security relationship graph focusing on attack vectors and trust boundaries">>]

\* Lines 424-464 and 553-589: the answer is cleaned, written to the
\* artifact, read back and returned; an open() that raises is answered 500.
DiagramWriteArtifact ==
    /\ pc = "clean"
    /\ LET name == DiagramFile(route)
       IN  IF files[name].exists /\ ~files[name].opens
           THEN /\ Respond(500,
                      IF route = "/generate_infrastructure_diagram/"
                      THEN [error |-> <<"Error calling LLM for diagram generation: ">>
                                        \o OSErrorText("PermissionError", name)]
                      ELSE DiagramError(route, OSErrorText("PermissionError", name)))
                /\ UNCHANGED files
           ELSE /\ files' = WriteFile(files, name, CleanDiagram(response.content))
                /\ Respond(200, DiagramBody(route,
                                  ReadFile(files', name).content))
    /\ ops' = ops \o <<"write artifact", "open artifact">>
    /\ UNCHANGED <<user_query, doc, response, planner_runnable, planned, tasks,
                   loop_i, current_chat_history, invocations, outcomes, exc,
                   route, tf>>
    /\ UNCHANGED <<handlers, running>>

\* The working directories a diagram request can find.
DiagramDirectories ==
    {[name \in FileNames |->
         CASE name = infrastructure_data_json -> data
           [] name \in {infrastructure_diagram_txt, security_relationship_graph_txt}
                -> diagram
           [] name \in earlier -> File(EarlierText, "earlier")
           [] OTHER -> Absent] :
        data \in {Absent, File(EarlierText, "earlier"), Locked("earlier")},
        diagram \in {Absent, File(EarlierText, "earlier"), Locked("earlier")},
        earlier \in SUBSET {original_graph_txt, report_txt}}

InitDiagram ==
    /\ user_query = <<>>
    /\ doc \in DiagramDocs
    /\ response = RaiseResponse
    /\ planner_runnable = "none"
    /\ pc = "save_input"
    /\ planned = <<>>
    /\ tasks = <<>>
    /\ loop_i = 0
    /\ current_chat_history = <<>>
    /\ invocations = <<>>
    /\ outcomes = <<>>
    /\ exc = "none"
    /\ route \in DiagramRoutes
    /\ files \in DiagramDirectories
    /\ tf = <<>>
    /\ ops = <<>>
    /\ status = 0
    /\ body = NoResponse
    /\ handlers = OneRequest(route)
    /\ running = "1"

NextDiagram ==
    \/ DiagramSaveInput
    \/ DiagramRemovePrevious
    \/ DiagramCallModel
    \/ DiagramWriteArtifact

SpecDiagram == InitDiagram /\ [][NextDiagram]_vars

(***************************************************************************)
(* The server: several requests to the three routes, one event loop.  The  *)
(* three handlers are coroutines (async def, lines 314, 478 and 598) that  *)
(* call the model, the tools and the file system synchronously: a handler  *)
(* gives the event loop back only where it awaits, and none does.  Each    *)
(* handler is the sequence of its operations on the working directory and  *)
(* the models.                                                             *)
(***************************************************************************)

\* The most requests in flight.
MaxRequests == 2

Requests == {NumSym(k) : k \in 1..MaxRequests}

\* The operations of a handler, in program order.
HandlerOps(r) ==
    CASE r = "/process_terraform/" ->
           <<"read inputs", "purge", "write copy", "plan", "step", "step", "read back">>
      [] r = "/generate_infrastructure_diagram/" ->
           <<"write input", "purge", "read input", "call model", "write artifact",
             "read back">>
      [] OTHER ->
           <<"write input", "read input", "call model", "write artifact", "read back">>

\* Awaits with an await on the calls of the models.
Awaits_ModelCalls(r, op) == op \in {"plan", "step", "call model"}

\* The operation gives the event loop back when it is done: no handler has
\* an await expression.
Awaits(r, op) == FALSE

\* The files an operation writes.
Writes(r, op) ==
    CASE op = "write copy" -> {original_terraform_tf}
      [] op = "step" -> ArtifactSet
      [] op = "write input" -> {infrastructure_data_json}
      [] op = "write artifact" -> {DiagramFile(r)}
      [] OTHER -> {}

\* The files an operation reads that its handler wrote before.
Reads(r, op) ==
    CASE op = "read input" -> {infrastructure_data_json}
      [] op = "read back" -> IF r = "/process_terraform/" THEN ArtifactSet
                             ELSE {DiagramFile(r)}
      [] OTHER -> {}

\* The working directory after the operation of request id.
OpEffect(id, r, op, fs) ==
    [name \in FileNames |->
        IF op = "purge" /\ name \in (IF r = "/process_terraform/" THEN PurgeTargets(fs)
                                     ELSE PreviousDiagrams(fs))
        THEN Absent
        ELSE IF name \in Writes(r, op) THEN File(ToolText, id)
        ELSE fs[name]]

\* The event loop is idle and starts, or resumes, a handler.
Dispatch ==
    /\ pc = "serving"
    /\ running = "none"
    /\ \E id \in Requests :
         /\ handlers[id].done < Len(HandlerOps(handlers[id].route))
         /\ running' = id
    /\ UNCHANGED <<user_query, doc, response, planner_runnable, pc, planned, tasks,
                   loop_i, current_chat_history, invocations, outcomes, exc,
                   route, files, tf, ops, status, body, handlers>>

\* The running handler performs its next operation; it leaves the event
\* loop when it has returned its response, or at an await.
HandlerStep ==
    /\ pc = "serving"
    /\ running # "none"
    /\ LET h == handlers[running]
           op == HandlerOps(h.route)[h.done + 1]
       IN  /\ files' = OpEffect(running, h.route, op, files)
           /\ handlers' = [handlers EXCEPT ![running].done = h.done + 1]
           /\ running' = IF h.done + 1 = Len(HandlerOps(h.route)) \/ Awaits(h.route, op)
                         THEN "none" ELSE running
    /\ UNCHANGED <<user_query, doc, response, planner_runnable, pc, planned, tasks,
                   loop_i, current_chat_history, invocations, outcomes, exc,
                   route, tf, ops, status, body>>

InitServer ==
    /\ user_query = initial_user_query
    /\ doc = RaiseDoc
    /\ response = RaiseResponse
    /\ planner_runnable = "none"
    /\ pc = "serving"
    /\ planned = <<>>
    /\ tasks = <<>>
    /\ loop_i = 0
    /\ current_chat_history = <<>>
    /\ invocations = <<>>
    /\ outcomes = <<>>
    /\ exc = "none"
    /\ route = "all"
    /\ files \in {fs \in RouteDirectories :
                    /\ ReadFile(fs, original_tf).ok
                    /\ ReadFile(fs, logs_json).ok
                    /\ fs[original_terraform_tf] = Absent}
    /\ tf = TerraformText
    /\ ops = <<>>
    /\ status = 0
    /\ body = NoResponse
    /\ handlers \in [Requests -> {[route |-> r, done |-> 0] : r \in {"/process_terraform/"} \cup DiagramRoutes}]
    /\ running = "none"

NextServer ==
    \/ Dispatch
    \/ HandlerStep

SpecServer == InitServer /\ [][NextServer]_vars

\* The working directory under the handlers: one call of /process_terraform/
\* in full, from every directory and with every answer to its opens, or
\* several calls to the three routes one after the other.
InitFiles == InitRoute \/ InitServer

NextFiles ==
    \/ NextRoute
    \/ NextServer

SpecFiles == InitFiles /\ [][NextFiles]_vars

(***************************************************************************)
(* Properties of the loop (specification Spec).                            *)
(***************************************************************************)

\* The output text of step k, from what the executor did in it.
StepOutput(k) == AgentOutput(InvokeResponse(outcomes[k]))

\* C1: for a task list of N tasks that entered the loop, the invocations of
\* agent.invoke made so far are one per task, in list order, each followed
\* by its two chat turns (user: the task's description, ai: the step's
\* output); when the loop ends there are exactly N invocations and exactly
\* 2N turns.
C1_LoopInvokesEachTaskOnce ==
    pc \in {"loop", "invoke", "all_processed"} =>
      /\ Len(invocations) = loop_i
      /\ Len(invocations) <= Len(tasks)
      /\ pc = "all_processed" => Len(invocations) = Len(tasks)
      /\ Len(current_chat_history) = 2 * Len(invocations)
      /\ \A k \in 1..Len(invocations) :
           /\ invocations[k].input = tasks[k].description
           /\ current_chat_history[2 * k - 1] = ChatTurn("user", tasks[k].description)
           /\ current_chat_history[2 * k] = ChatTurn("ai", StepOutput(k))

\* C1's case: the loop has ended over at least two tasks with different
\* descriptions.
C1_Witness ==
    /\ pc = "all_processed"
    /\ Len(tasks) >= 2
    /\ tasks[1].description # tasks[2].description
    /\ Len(current_chat_history) = 2 * Len(tasks)

\* A step fails when the executor raises, runs out of its budget, or
\* returns no output.
StepFailed(outcome) ==
    \/ outcome.kind = "raise"
    \/ ~outcome.has_output
    \/ outcome.text = <<"Agent stopped due to iteration limit or time limit.">>

\* C2: a failure in a step (the construction of its executor included)
\* never leaves the loop as an exception: it becomes the step's output, the
\* step's two turns are appended and the loop goes on to the next task.
C2_StepFailureNeverAborts ==
    /\ exc # "CloudAIAgent.__init__"
    /\ \A k \in 1..Len(outcomes) :
         StepFailed(outcomes[k]) =>
           /\ Len(current_chat_history) >= 2 * k
           /\ current_chat_history[2 * k] = ChatTurn("ai", StepOutput(k))
           /\ loop_i >= k

\* The planner failed: its construction raised, or its call did.
PlannerFailed == exc = "TaskPlannerAgent.__init__" \/ doc.kind = "raise"

\* C3: when the planner fails at construction or at the planning call, no
\* exception leaves func, the one fallback task is what the loop runs, and
\* the loop ends with a chat history of two turns.
C3_PlannerFailureRunsFallback ==
    PlannerFailed =>
      /\ pc # "raised"
      /\ pc \in {"loop", "invoke", "all_processed"} =>
           tasks = FallbackTasks(user_query)
      /\ pc = "all_processed" =>
           Len(invocations) = 1 /\ Len(current_chat_history) = 2

(***************************************************************************)
(* Properties of planning (specification SpecPlan), stated against the     *)
(* document the response was rendered from.                                *)
(***************************************************************************)

\* generate_tasks has returned.
Planned == pc \in {"select", "loop"}

\* s occurs in t as a run of consecutive symbols.
Embeds(t, s) ==
    \E k \in 0..(Len(t) - Len(s)) : SubSeq(t, k + 1, k + Len(s)) = s

\* The positions of the items that are tasks: mappings with a description.
ValidPositions(items) ==
    {p \in 1..Len(items) : items[p].kind \in {"full", "noid"}}

\* The position of the k-th item that is a task.
ValidPosition(items, k) ==
    CHOOSE p \in ValidPositions(items) :
        Cardinality({q \in ValidPositions(items) : q <= p}) = k

\* ts is the tasks the items encode, in their order: one task per item with
\* a description, with the item's description and, when it has one, its id.
Encodes(ts, items) ==
    /\ Len(ts) = Cardinality(ValidPositions(items))
    /\ \A k \in 1..Len(ts) :
         LET it == items[ValidPosition(items, k)]
         IN  /\ ts[k].description = it.d
             /\ it.kind = "full" => ts[k].id = it.i

\* ts is one diagnostic task: an error id and the error text as description.
IsDiagnostic(ts) ==
    /\ Len(ts) = 1
    /\ \/ /\ ts[1].id = task_error_parsing
          /\ Head(ts[1].description) = "Error decoding JSON from LLM. Response: "
       \/ /\ ts[1].id = task_error_processing
          /\ Head(ts[1].description) = "Error generating or processing tasks. Details: "
    /\ Len(ts[1].description) >= 2

\* The text of the document is whole JSON holding a task list with at least
\* one task.
EncodesTasks(d) ==
    /\ d.kind = "text"
    /\ d.shape \in {"list", "dict"}
    /\ d.cut = 0
    /\ ValidPositions(d.items) # {}

HasBracket(s) == \E k \in 1..Len(s) : s[k] \in {LBrace, LBracket}

\* The id asks for the fallback: it is missing (empty) or indicates an
\* error.
IdIndicatesError(id) == \E k \in 1..Len(id) : id[k] \in {"error", "Error", "ERROR"}

\* C4: the list that enters the loop is never empty; it is the one fallback
\* task, whose description holds the whole goal, when the planner's list is
\* empty or its first id is missing or indicates an error, and the
\* planner's list unchanged otherwise.
C4_TaskListNeverEmpty ==
    pc = "loop" =>
      /\ tasks # <<>>
      /\ IF planned = <<>>
         THEN TRUE
         ELSE planned[1].id # <<>> /\ ~IdIndicatesError(planned[1].id)
                => tasks = planned
      /\ (planned = <<>> \/ planned[1].id = <<>> \/ IdIndicatesError(planned[1].id))
           => /\ Len(tasks) = 1
              /\ tasks[1].id = <<"fallback_direct_query_task">>
              /\ Embeds(tasks[1].description, user_query)
              /\ Len(tasks[1].description) > Len(user_query)

\* C4's case: the planner returned an empty list and the fallback task for
\* the route's goal entered the loop.
C4_Witness ==
    /\ pc = "loop"
    /\ planned = <<>>
    /\ user_query = initial_user_query
    /\ Len(tasks) = 1

\* C5: generate_tasks returns at least one task for every response.
C5_PlannerReturnsAtLeastOne == Planned => Len(planned) >= 1

\* Planning produces no valid task: the call raises, or the answer holds no
\* task list, a truncated one, or one without any item that is a task.
NoValidTask(d) ==
    \/ d.kind = "raise"
    \/ d.shape \in {"object", "prose"}
    \/ d.cut > 0
    \/ ValidPositions(d.items) = {}

\* C6: when planning produces no valid task, also for the empty goal, the
\* list that enters the loop is exactly one fallback task whose description
\* embeds the goal verbatim.
C6_NoValidTaskYieldsFallback ==
    pc = "loop" /\ NoValidTask(doc) =>
      /\ Len(tasks) = 1
      /\ tasks[1].id = <<"fallback_direct_query_task">>
      /\ Embeds(tasks[1].description, user_query)
      /\ Len(tasks[1].description) > Len(user_query)

\* C6's case: a free-text answer whose only item has no description, for
\* the route's goal.
C6_Witness ==
    /\ pc = "loop"
    /\ doc.kind = "text"
    /\ doc.cut = 0
    /\ doc.shape = "list"
    /\ Len(doc.items) = 1
    /\ ValidPositions(doc.items) = {}
    /\ user_query = initial_user_query
    /\ tasks[1].id = <<"fallback_direct_query_task">>

\* C7: for a response with a fenced block labelled json that holds a task
\* list, generate_tasks returns exactly the tasks of the block, in order,
\* whatever precedes the block and whatever the strings in it contain.
C7_FencedBlockYieldsItsTasks ==
    Planned /\ EncodesTasks(doc) /\ doc.fenced => Encodes(planned, doc.items)

\* C8: for a response without a labelled fence whose first '{' or '[' starts
\* balanced JSON holding a task list, generate_tasks returns the tasks that
\* JSON encodes, whatever the strings in it contain.
C8_UnfencedJsonYieldsItsTasks ==
    Planned /\ EncodesTasks(doc) /\ ~doc.fenced /\ ~HasBracket(doc.pre)
      => Encodes(planned, doc.items)

\* Extraction has to fail on the text: it holds no JSON, truncated JSON,
\* JSON of the wrong shape, or a list without any valid item.
ExtractionMustFail(d) ==
    \/ d.shape \in {"object", "prose"}
    \/ d.cut > 0
    \/ ValidPositions(d.items) = {}

\* C9: for a free-text response generate_tasks never raises, and what it
\* returns is either the tasks the text encodes or, always when extraction
\* has to fail, exactly one diagnostic task with id task_error_parsing or
\* task_error_processing and the error as its description.
C9_FailedExtractionYieldsDiagnostic ==
    Planned /\ doc.kind = "text" =>
      /\ exc = "none"
      /\ \/ IsDiagnostic(planned)
         \/ /\ ~ExtractionMustFail(doc)
            /\ planned # <<>>
            /\ Encodes(planned, doc.items)

\* C9's case: truncated JSON (its last closing bracket is missing) has
\* yielded the diagnostic task.
C9_Witness ==
    /\ Planned
    /\ doc.kind = "text"
    /\ doc.cut > 0
    /\ ~doc.fenced
    /\ ValidPositions(doc.items) # {}
    /\ planned[1].id = task_error_processing

\* C10: when extraction succeeds, the task returned for an item without id
\* has the id task_<p>_generated_id for the item's position p in the parsed
\* list, dropped items counted, and an item with an id keeps it.
C10_GeneratedIdIsPosition ==
    Planned /\ doc.kind = "text" /\ ~IsDiagnostic(planned) =>
      /\ Len(planned) = Cardinality(ValidPositions(doc.items))
      /\ \A k \in 1..Len(planned) :
           LET p == ValidPosition(doc.items, k)
           IN  IF doc.items[p].kind = "noid"
               THEN planned[k].id = <<"task_", NumSym(p), "_generated_id">>
               ELSE planned[k].id = doc.items[p].i

\* C10's case: the first item was dropped and the second, without id, got
\* the id of position 2.
C10_Witness ==
    /\ Planned
    /\ doc.kind = "text"
    /\ Len(doc.items) = 2
    /\ doc.items[1].kind \in {"nodesc", "null"}
    /\ doc.items[2].kind = "noid"
    /\ Len(planned) = 1
    /\ planned[1].id = <<"task_", "2", "_generated_id">>

(***************************************************************************)
(* Properties of the whole route (specification SpecRoute).                *)
(***************************************************************************)

\* The handler has built or called the planner or a step executor.
PlannerOrExecutorUsed ==
    \/ \E k \in 1..Len(ops) :
          ops[k] \in {"TaskPlannerAgent()", "generate_tasks", "CloudAIAgent()",
                      "agent.invoke"}
    \/ planner_runnable # "none"
    \/ invocations # <<>>

\* The response is an error whose text has the word in it.
ErrorNames(word) ==
    /\ DOMAIN body = {"error"}
    /\ \E k \in 1..Len(body.error) : body.error[k] = word

\* C11: a request that finds original.tf absent is answered 404 with a body
\* naming original.tf; one that could read original.tf and finds logs.json
\* absent is answered 404 with a body naming logs.json; in both cases
\* neither the planner nor a step executor is ever built or called.
C11_MissingInputAnswers404 ==
    /\ (~files[original_tf].exists \/ ~files[logs_json].exists)
          => ~PlannerOrExecutorUsed
    /\ (pc = "responded" /\ ~files[original_tf].exists)
          => status = 404 /\ ErrorNames("original.tf")
    /\ (pc = "responded" /\ ReadFile(files, original_tf).ok /\ ~files[logs_json].exists)
          => status = 404 /\ ErrorNames("logs.json")

C11_Witness ==
    /\ pc = "responded"
    /\ status = 404
    /\ ~files[original_tf].exists
    /\ ops = <<"open original.tf">>

\* The loop is over and func has started to read the artifacts back.
ReadBackStarted == \E k \in 1..Len(ops) : ops[k] = "open report.txt"

\* C12: a 200 response of /process_terraform/ has exactly the five fields,
\* the four artifact fields with the content of their files, which all
\* exist, and original_terraform with the text of original.tf; when an
\* artifact file is missing at the read-back the response is a 500.
C12_SuccessPayloadIsComplete ==
    /\ status = 200 =>
          /\ DOMAIN body = {"report", "original_graph", "changed_graph",
                            "changed_terraform", "original_terraform"}
          /\ \A name \in ArtifactSet : files[name].exists /\ files[name].opens
          /\ body.report = files[report_txt].content
          /\ body.original_graph = files[original_graph_txt].content
          /\ body.changed_graph = files[changed_graph_txt].content
          /\ body.changed_terraform = files[changed_terraform_tf].content
          /\ body.original_terraform = files[original_tf].content
    /\ (pc = "responded" /\ ReadBackStarted
          /\ \E name \in ArtifactSet : ~files[name].exists)
         => status = 500

\* Two artifacts are there and the third is not.
C12_Witness ==
    /\ pc = "responded"
    /\ status = 500
    /\ files[report_txt].exists
    /\ files[original_graph_txt].exists
    /\ ~files[changed_graph_txt].exists
    /\ exc = "open changed_graph.txt"

\* The planner has been built or called.
PlannerCalled ==
    \E k \in 1..Len(ops) : ops[k] \in {"TaskPlannerAgent()", "generate_tasks"}

\* C14: once the planner is called, no .txt or .tf file other than
\* original.tf is left from before the request, and the four artifacts of a
\* 200 response were all written during the request.
C14_OutputsAreOfThisRun ==
    /\ (route = "/process_terraform/" /\ PlannerCalled) =>
          \A name \in FileNames :
             (/\ EndsWith(name, <<".txt">>) \/ EndsWith(name, <<".tf">>)
              /\ name # original_tf
              /\ files[name].exists)
               => files[name].run = "current"
    /\ (route = "/process_terraform/" /\ status = 200) =>
          \A name \in ArtifactSet : files[name].run = "current"

\* The response is a JSON error object that carries a text after its
\* lead-in, as the except clauses of the routes build it from str(e).
BodyHasExceptionText == DOMAIN body = {"error"} /\ Len(body.error) >= 2

\* C16: a request of /process_terraform/ in which a call raised an exception
\* that nothing at the call catches (the planner's or a step executor's
\* construction, the write of the copy, the read-back of an artifact) is
\* answered 500 with a body that carries the exception's text.
C16_ExceptionAnswers500WithText ==
    (pc = "responded" /\ exc # "none") =>
      /\ status = 500
      /\ BodyHasExceptionText

(***************************************************************************)
(* Properties of the diagram routes (specification SpecDiagram).           *)
(***************************************************************************)

\* The answer is wrapped in fence markers: it opens with one and a closing
\* one follows its content.
WrappedInFences(d) == d.kind = "text" /\ d.fenced /\ d.closing # "none"

\* The wrapped content starts with the graph keyword.
ContentStartsWithGraph(d) == StartsWithGraph(Strip(JoinLines(d.lines)))

HasFence(text) == \E k \in 1..Len(text) : IsFence(text[k])

\* The text a diagram route answered with, under the route's field.
ReturnedDiagram ==
    IF route = "/generate_infrastructure_diagram/" THEN body.infrastructure_diagram
    ELSE body.security_graph

\* C13: when a diagram route has answered 200 to a model answer that is
\* wrapped in fence markers and whose content does not start with the graph
\* keyword, the artifact written, which is the text returned, begins with
\* "graph TD" and has no fence marker in it.
C13_FencedAnswerIsCleaned ==
    (pc = "responded" /\ status = 200 /\ route \in DiagramRoutes
       /\ WrappedInFences(doc) /\ ~ContentStartsWithGraph(doc))
      => /\ files[DiagramFile(route)].content = ReturnedDiagram
         /\ Take(ReturnedDiagram, 3) = <<"graph", Space, "TD">>
         /\ ~HasFence(ReturnedDiagram)

(***************************************************************************)
(* Further properties of the loop (specification Spec).                    *)
(***************************************************************************)

\* Planning failed and the first step has been run.
DiagnosticPlanned == IsDiagnostic(planned) /\ Len(invocations) >= 1

\* C15 as stated: when planning failed, the description passed to the step
\* executor and recorded as the user turn is the diagnostic task's.
C15_DiagnosticTaskIsExecuted ==
    DiagnosticPlanned =>
      /\ invocations[1].input = planned[1].description
      /\ current_chat_history[1] = ChatTurn("user", planned[1].description)

\* C15, amended: when planning failed, the diagnostic task is replaced by
\* the one fallback task, and the description passed to the step executor
\* and recorded as the user turn is the fallback task's: the fixed lead-in
\* followed by the goal.
C15_FallbackReplacesDiagnostic ==
    DiagnosticPlanned =>
      /\ tasks = FallbackTasks(user_query)
      /\ invocations[1].input =
           <<"Attempt to address original query directly: ">> \o user_query
      /\ current_chat_history[1] = ChatTurn("user", invocations[1].input)
      /\ Len(invocations) = 1

C15_Witness ==
    /\ pc = "all_processed"
    /\ IsDiagnostic(planned)
    /\ planned[1].id = task_error_parsing
    /\ Len(invocations) = 1

\* The messages of the steps before step k: for each, the task's
\* description as a human message, then the step's output as an ai message.
RECURSIVE EarlierMessages(_)
EarlierMessages(k) ==
    IF k <= 1 THEN <<>>
    ELSE EarlierMessages(k - 1)
           \o <<HumanMessage(tasks[k - 1].description), AIMessage(StepOutput(k - 1))>>

\* C17: while step i runs, the steps before it have all returned, and the
\* chat history step i was given is exactly the 2(i-1) messages of steps
\* 1..i-1 in order, whole.
C17_HistoryIsEarlierStepsInOrder ==
    /\ pc = "invoke" =>
          /\ Len(outcomes) = loop_i
          /\ Len(invocations) = loop_i
          /\ Len(current_chat_history) = 2 * loop_i
    /\ \A k \in 1..Len(invocations) :
          /\ Len(invocations[k].chat_history) = 2 * (k - 1)
          /\ invocations[k].chat_history = EarlierMessages(k)

C17_Witness ==
    /\ Len(invocations) = 3
    /\ Len(invocations[3].chat_history) = 4
    /\ StepOutput(1) # StepOutput(2)
    /\ tasks[1].description # tasks[2].description

\* How often a call occurs among the calls made.
Count(op) == Cardinality({k \in 1..Len(ops) : ops[k] = op})

\* Where the run is: 0 while planning, i while step i is executed, N+1 when
\* the N tasks are done; and how far within that.
RunPhase ==
    IF pc \in {"planner_init", "plan", "select"} THEN 0
    ELSE IF pc = "all_processed" THEN Len(tasks) + 1
    ELSE loop_i + 1

RunClock ==
    3 * RunPhase
      + (CASE pc \in {"planner_init", "loop"} -> 0
           [] pc \in {"plan", "invoke"} -> 1
           [] pc = "all_processed" -> 1
           [] OTHER -> 2)

\* C18: a run is one linear pass.  Every step of it moves forward, from a
\* phase to itself or to the next one and never back (or is the abort of a
\* call that raised); the planner is built and called once, before the
\* first step, and step i is the i-th executor built; and the run ends:
\* all tasks are done unless a call raised.
C18_RunIsLinearPass ==
    /\ [][pc' # "raised" =>
            /\ RunClock' > RunClock
            /\ RunPhase' \in {RunPhase, RunPhase + 1}]_vars
    /\ [](/\ Count("TaskPlannerAgent()") <= 1
          /\ Count("generate_tasks") <= 1
          /\ pc \in {"loop", "invoke", "all_processed"} =>
                /\ Count("generate_tasks") = 1
                /\ Count("CloudAIAgent()") = loop_i + (IF pc = "invoke" THEN 1 ELSE 0)
                /\ Count("agent.invoke") = loop_i)
    /\ <>(pc = "all_processed" \/ pc = "raised")

C18_Witness ==
    /\ pc = "all_processed"
    /\ RunPhase = 4
    /\ Count("CloudAIAgent()") = 3
    /\ Count("generate_tasks") = 1

\* C20: the memory string step i was given is the base block (the role
\* label and the goal), the marker "Current step: i/N" and the first 80
\* symbols of the task's description, and the log and graph snippets are
\* the fixed texts around the task's id: whatever the steps before it put
\* out.
C20_MemoryIsFunctionOfLoopState ==
    \A k \in 1..Len(invocations) :
       /\ invocations[k].memory_block =
            <<"User role: Senior DevOps Engineer. Overall User Goal: ">>
              \o user_query
              \o <<" Current step: ", NumSym(k), "/", NumSym(Len(tasks)), ". Focus: ">>
              \o [j \in 1..(IF Len(tasks[k].description) < 80
                             THEN Len(tasks[k].description) ELSE 80)
                    |-> tasks[k].description[j]]
              \o <<"...">>
       /\ invocations[k].cloud_logs =
            <<"Simulated logs for task ">> \o tasks[k].id
              \o <<": System health nominal. ...">>
       /\ invocations[k].graph_code =
            <<"{'services': ... 'unknown_at_start_of_task_">> \o tasks[k].id
              \o <<"'}}}">>

\* The second step has a description longer than the focus, after a first
\* step that failed.
C20_Witness ==
    /\ Len(invocations) = 2
    /\ Len(tasks[2].description) > 80
    /\ outcomes[1].kind = "raise"
    /\ Len(tasks) = 3

(***************************************************************************)
(* Properties of the server (specification SpecServer).                    *)
(***************************************************************************)

\* The requests whose handler has started and has not returned.
InFlight ==
    {id \in Requests :
        \/ running = id
        \/ /\ handlers[id].done > 0
           /\ handlers[id].done < Len(HandlerOps(handlers[id].route))}

\* The files request id has written and has still to read.
WrittenToRead(id) ==
    LET h == handlers[id]
        hops == HandlerOps(h.route)
    IN  {name \in FileNames :
           /\ \E j \in 1..h.done : name \in Writes(h.route, hops[j])
           /\ \E k \in (h.done + 1)..Len(hops) : name \in Reads(h.route, hops[k])}

\* C19: with several requests at the server, at most one handler is in
\* flight at any moment, and every file a handler has written and has still
\* to read back is there as that handler wrote it: no other request has
\* purged or overwritten it in between.
C19_RequestsNeverInterleave ==
    /\ Cardinality(InFlight) <= 1
    /\ \A id \in Requests :
          \A name \in WrittenToRead(id) : files[name] = File(ToolText, id)

\* A request that purges the artifacts waits while another one is between
\* the write of its artifacts and their read-back.
C19_Witness ==
    \E id \in Requests, other \in Requests :
       /\ id # other
       /\ running = id
       /\ handlers[id].route = "/process_terraform/"
       /\ WrittenToRead(id) = ArtifactSet
       /\ handlers[other].route \in {"/process_terraform/",
                                     "/generate_infrastructure_diagram/"}
       /\ handlers[other].done = 0

(***************************************************************************)
(* The tasks of one run (lines 85-90, 184-209).                            *)
(***************************************************************************)

\* No two tasks of the list have the same id.
DistinctIds(ts) ==
    \A j \in 1..Len(ts), k \in 1..Len(ts) : j # k => ts[j].id # ts[k].id

\* C21: for every model response, the tasks generate_tasks returns have
\* pairwise distinct ids.
C21_TaskIdsAreDistinct == Planned => DistinctIds(planned)

\* The positions of the parsed list that hold a task: a mapping with a
\* description key.
ValidAt(e) ==
    {p \in 1..Len(e) : e[p].t = "obj" /\ HasKey(e[p], <<"description">>)}

\* ts is the valid items of the parsed list e, in their order.
ValidItemsOf(ts, e) ==
    /\ Len(ts) = Cardinality(ValidAt(e))
    /\ \A k \in 1..Len(ts) :
         LET p == CHOOSE q \in ValidAt(e) :
                      Cardinality({r \in ValidAt(e) : r <= q}) = k
         IN  /\ ts[k].description = PyStr(GetKey(e[p], <<"description">>))
             /\ HasKey(e[p], <<"id">>) => ts[k].id = PyStr(GetKey(e[p], <<"id">>))

\* C22: in free-text extraction, whenever at least one item of the parsed
\* list is valid, generate_tasks returns exactly the valid items, in their
\* order, and no diagnostic task: an item that is no mapping or has no
\* description is dropped without failing the extraction.
C22_InvalidItemsAreDropped ==
    Planned /\ doc.kind = "text" =>
      LET parsed == ParsedItems(response.content)
      IN  parsed.ok /\ ValidAt(parsed.e) # {}
            => /\ ~IsDiagnostic(planned)
               /\ ValidItemsOf(planned, parsed.e)
               /\ exc = "none"

\* C22's case: a parsed list of two items, the first without description
\* (or no mapping), the second valid, has yielded the second alone.
C22_Witness ==
    /\ Planned
    /\ doc.kind = "text"
    /\ ParsedItems(response.content).ok
    /\ Len(ParsedItems(response.content).e) = 2
    /\ ValidAt(ParsedItems(response.content).e) = {2}
    /\ Len(planned) = 1
    /\ planned[1].description = doc.items[2].d

\* Planning succeeded: the planner returned a non-empty list of valid tasks
\* from a task list object, or from a text whose JSON was parsed and holds a
\* list with at least one valid item.
PlanningSucceeded ==
    \/ doc.kind = "structured" /\ planned # <<>>
    \/ /\ doc.kind = "text"
       /\ ParsedItems(response.content).ok
       /\ ValidAt(ParsedItems(response.content).e) # {}

\* C23: whenever planning succeeded, the list that enters the loop is the
\* planner's list as returned, whatever the ids of its tasks (also a first
\* id that contains "error" or is the empty string).
C23_SuccessfulPlanIsExecuted ==
    pc = "loop" /\ PlanningSucceeded => tasks = planned

(***************************************************************************)
(* The input files (specification SpecFiles).                              *)
(***************************************************************************)

\* The step leaves original.tf and logs.json as they are.
InputsKept ==
    /\ files'[original_tf] = files[original_tf]
    /\ files'[logs_json] = files[logs_json]

\* The handler is at one of its two opens of the input files.
OpeningInputs == pc \in {"read_original_tf", "read_logs_json"}

\* All the handler has done is open input files.
OnlyOpened ==
    \A k \in 1..Len(ops) : ops[k] \in {"open original.tf", "open logs.json"}

\* C24: no file operation of a handler deletes or modifies original.tf or
\* logs.json, in any sequence of calls to the three routes; and a call of
\* /process_terraform/ that answers 404 has only opened input files, which
\* leaves every file of the working directory unchanged.
C24_InputFilesAreKept ==
    /\ [][InputsKept]_vars
    /\ [][OpeningInputs => files' = files]_vars
    /\ [](status = 404 => OnlyOpened)

\* C24's case: the call found original.tf, answered 404 for the missing
\* logs.json, and the earlier outputs its purge would have removed are
\* still in the directory.
C24_Witness ==
    /\ status = 404
    /\ pc = "responded"
    /\ ReadFile(files, original_tf).ok
    /\ files[logs_json] = Absent
    /\ \A name \in ArtifactSet : files[name] = File(EarlierText, "earlier")
    /\ files[original_terraform_tf] = File(EarlierText, "earlier")

====
